---- MODULE Spec2Model ----
(***************************************************************************)
(* HomeNest API server (src/index.js): an express application whose route  *)
(* handlers run against three MongoDB collections behind a Firebase bearer *)
(* token guard.                                                            *)
(*                                                                         *)
(* A request is handled in segments: the code from one `await` to the next *)
(* runs without interruption (single JavaScript thread), and the awaited   *)
(* store operation is atomic in the store.  One action of the model is one *)
(* awaited operation together with the synchronous code that follows it up *)
(* to the next await (or to the response).  A request occupies a slot from *)
(* its arrival until its response has been written.                        *)
(*                                                                         *)
(* Strings that the code inspects character by character (the :id path     *)
(* parameter) are sequences of one-character strings; an ObjectId is its   *)
(* 12 bytes.  Timestamps are the abstract value Now.                       *)
(***************************************************************************)
EXTENDS Integers, Sequences, FiniteSets, TLC

\* ------------------------------------------------------------------ bounds
MaxInFlight == 2      \* requests handled concurrently
MaxIds == 2           \* ObjectIds the driver generates in one run

\* --------------------------------------------------------------- ObjectId
HexLen == 24

HexDigits == <<"0","1","2","3","4","5","6","7","8","9","a","b","c","d","e","f">>
UpperHexDigits == <<"0","1","2","3","4","5","6","7","8","9","A","B","C","D","E","F">>

IsHexChar(c) == \E i \in 1..16 : HexDigits[i] = c \/ UpperHexDigits[i] = c
HexVal(c) == (CHOOSE i \in 1..16 : HexDigits[i] = c \/ UpperHexDigits[i] = c) - 1

\* ObjectId.isValid on a string: 24 hexadecimal characters, either case
isValid(id) == Len(id) = HexLen /\ \A i \in 1..HexLen : IsHexChar(id[i])

\* new ObjectId(id) for a valid hex string: its 12 bytes
ObjectId(id) == [i \in 1..(HexLen \div 2) |-> 16 * HexVal(id[2*i - 1]) + HexVal(id[2*i])]

\* ObjectId.prototype.toString: lower-case hex of the 12 bytes
toString(oid) ==
    [i \in 1..HexLen |->
        HexDigits[(IF i % 2 = 1 THEN oid[(i + 1) \div 2] \div 16
                                ELSE oid[i \div 2] % 16) + 1]]

\* the n-th identifier the driver generates for a document inserted without _id
createPk(n) == [i \in 1..(HexLen \div 2) |-> IF i = HexLen \div 2 THEN 160 + n ELSE 0]

toUpperCase(str) ==
    [i \in 1..Len(str) |->
        IF \E k \in 1..16 : HexDigits[k] = str[i]
        THEN UpperHexDigits[CHOOSE k \in 1..16 : HexDigits[k] = str[i]]
        ELSE str[i]]

\* a stored _id: generated ObjectId, a value the client sent in the body, or none
NoId == [t |-> "none", v |-> <<>>]
Oid(bytes) == [t |-> "oid", v |-> bytes]
StrId(chars) == [t |-> "str", v |-> chars]

\* ------------------------------------------------------------- JS values
Undefined == "undefined"
Now == "now"
Falsy(x) == x = Undefined \/ x = ""
OrElse(x, d) == IF Falsy(x) THEN d ELSE x

\* a JSON body; a field the client did not send has the value it has here
EmptyBody ==
    [id |-> NoId, property_name |-> Undefined, property_image |-> Undefined,
     posted_by |-> [email |-> Undefined],
     rating |-> 0, review_text |-> Undefined,
     reviewer_email |-> Undefined, reviewer_name |-> Undefined,
     email |-> Undefined, message |-> Undefined, updated_at |-> Undefined]

\* { $set: upd } applied to doc: the fields upd carries replace doc's
Set(doc, upd) ==
    [f \in DOMAIN doc |->
        IF f \in DOMAIN upd /\ upd[f] # EmptyBody[f] THEN upd[f] ELSE doc[f]]

\* ------------------------------------------------------------------ state
VARIABLES
    propertiesCollection,    \* db.collection("properties"): set of documents
    reviewsCollection,       \* db.collection("reviews")
    testimonialsCollection,  \* db.collection("testimonials")
    nextId,                  \* identifiers generated so far, plus one
    req                      \* slot -> the request on it and its response

vars == <<propertiesCollection, reviewsCollection, testimonialsCollection, nextId, req>>

Slots == 1..MaxInFlight

NoRes == [status |-> 0, message |-> "", insertedId |-> NoId, body |-> {}]

NoReq ==
    [pc |-> "idle", route |-> "", id |-> <<>>, email |-> "", body |-> EmptyBody,
     authorization |-> <<>>, token |-> <<>>, user |-> "",
     oid |-> <<>>, userProperties |-> {}, ratings |-> {}, out |-> {},
     res |-> NoRes]

Init ==
    /\ propertiesCollection = {}
    /\ reviewsCollection = {}
    /\ testimonialsCollection = {}
    /\ nextId = 1
    /\ req = [s \in Slots |-> NoReq]

\* res.status(status).json({message}) / res.send(body): the handler is over
Respond(r, status, message, insertedId, body) ==
    [r EXCEPT !.pc = "responded", !.token = <<>>, !.oid = <<>>,
              !.userProperties = {}, !.ratings = {}, !.out = {},
              !.res = [status |-> status, message |-> message,
                       insertedId |-> insertedId, body |-> body]]

Json(r, status, message) == Respond(r, status, message, NoId, {})

Await(r, op) == [r EXCEPT !.pc = op]

\* ------------------------------------------------------- store operations
\* collection.findOne({_id: id}): the matching documents (none, or one)
findOne(coll, id) == {d \in coll : d.id = id}

\* collection.insertOne(doc): the driver gives a document without _id the next
\* generated ObjectId; the store refuses a second document with the same _id
insertOne(coll, doc) ==
    LET id == IF doc.id = NoId THEN Oid(createPk(nextId)) ELSE doc.id
        duplicate == \E d \in coll : d.id = id
    IN  [error |-> duplicate,
         insertedId |-> id,
         generated |-> IF doc.id = NoId THEN 1 ELSE 0,
         docs |-> IF duplicate THEN coll ELSE coll \cup {[doc EXCEPT !.id = id]}]

\* updateOne with upsert: true
updateOneUpsert(coll, id, upd) ==
    [matchedCount |-> Cardinality({d \in coll : d.id = id}),
     docs |-> IF \E d \in coll : d.id = id
              THEN {IF d.id = id THEN Set(d, upd) ELSE d : d \in coll}
              ELSE coll \cup {[upd EXCEPT !.id = id]}]

\* collection.updateOne({_id: id}, {$set: upd}), no upsert
updateOne(coll, id, upd) ==
    [matchedCount |-> Cardinality(findOne(coll, id)),
     docs |-> {IF d.id = id THEN Set(d, upd) ELSE d : d \in coll}]

\* deleteOne that reports the match and leaves the document
deleteOneKeeps(coll, id) ==
    [deletedCount |-> Cardinality({d \in coll : d.id = id}), docs |-> coll]

\* collection.deleteOne({_id: id})
deleteOne(coll, id) ==
    [deletedCount |-> Cardinality(findOne(coll, id)),
     docs |-> {d \in coll : d.id # id}]

\* ----------------------------------------------------------------- inputs
Emails == {"a@x.com", "b@x.com"}
MalformedId == <<"x", "y", "z">>
ClientId == StrId(<<"p", "1">>)

\* :id values a client sends: the hex form of identifiers the store may hold,
\* the same in upper case, and a string that is no 24-character hex string
IdStrings ==
    {toString(createPk(n)) : n \in 1..MaxIds}
        \cup {toUpperCase(toString(createPk(1))), MalformedId}

Villa ==
    [EmptyBody EXCEPT !.property_name = "Villa", !.property_image = "villa.png",
                      !.posted_by = [email |-> "a@x.com"]]
Loft == [EmptyBody EXCEPT !.property_name = "Loft"]

PostPropertyBodies == {Villa, [Villa EXCEPT !.id = ClientId]}
\* a client sends the document back with its _id
PutPropertyBodies == {[Loft EXCEPT !.id = ClientId]}
\* reviews are posted by one reviewer, for the first property and for a malformed :id
Reviewers == {"a@x.com"}
ReviewedIds == {toString(createPk(1)), MalformedId}
PostReviewBodies(E) ==
    {[EmptyBody EXCEPT !.rating = 5, !.review_text = "great",
                       !.reviewer_email = e, !.reviewer_name = "R"] : e \in E}
PutReviewBodies == {[EmptyBody EXCEPT !.rating = 3, !.review_text = "fine"]}
PostTestimonialBodies(E) ==
    {[EmptyBody EXCEPT !.email = e, !.message = "nice"] : e \in E}
PutTestimonialBodies(E) ==
    {[EmptyBody EXCEPT !.id = ClientId, !.email = e] : e \in E}

Line(route, id, email, body) ==
    [NoReq EXCEPT !.route = route, !.id = id, !.email = email, !.body = body]

Protected ==
    {"GET /my-properties/:email", "POST /properties", "PUT /properties/:id",
     "DELETE /properties/:id", "GET /my-property-ratings/:email",
     "GET /my-ratings/:email", "POST /properties/:id/reviews", "PUT /reviews/:id",
     "DELETE /reviews/:id", "GET /testimonials/user/:email", "POST /testimonials",
     "PUT /testimonials/:id", "DELETE /testimonials/:id"}

\* the requests a client can send, over e-mail addresses E and :id strings I
Requests(E, I) ==
         {Line("GET /properties/:id", i, "", EmptyBody) : i \in I}
    \cup {Line("GET /my-properties/:email", <<>>, e, EmptyBody) : e \in E}
    \cup {Line("POST /properties", <<>>, "", b) : b \in PostPropertyBodies}
    \cup {Line("PUT /properties/:id", i, "", b) : i \in I, b \in PutPropertyBodies}
    \cup {Line("DELETE /properties/:id", i, "", EmptyBody) : i \in I}
    \cup {Line("GET /my-property-ratings/:email", <<>>, e, EmptyBody) : e \in E}
    \cup {Line("GET /my-ratings/:email", <<>>, e, EmptyBody) : e \in E}
    \cup {Line("POST /properties/:id/reviews", i, "", b) :
             i \in I \cap ReviewedIds, b \in PostReviewBodies(E \cap Reviewers)}
    \cup {Line("PUT /reviews/:id", i, "", b) : i \in I, b \in PutReviewBodies}
    \cup {Line("DELETE /reviews/:id", i, "", EmptyBody) : i \in I}
    \cup {Line("GET /testimonials/user/:email", <<>>, e, EmptyBody) : e \in E}
    \cup {Line("POST /testimonials", <<>>, "", b) : b \in PostTestimonialBodies(E)}
    \cup {Line("PUT /testimonials/:id", i, "", b) : i \in I, b \in PutTestimonialBodies(E)}
    \cup {Line("DELETE /testimonials/:id", i, "", EmptyBody) : i \in I}

\* --------------------------------------------------------------- auth guard
\* An Authorization header is the sequence of its parts, the scheme "Bearer "
\* being one part; <<>> is a request without the header.
Bearer == "Bearer "
Authorizations ==
    {<<>>, <<Bearer>>, <<"good">>, <<Bearer, "good">>, <<Bearer, "bad">>}

\* String.prototype.split(sep): the pieces between the occurrences of sep
RECURSIVE split(_, _)
split(str, sep) ==
    IF \A i \in 1..Len(str) : str[i] # sep THEN <<str>>
    ELSE LET k == CHOOSE i \in 1..Len(str) :
                      str[i] = sep /\ \A j \in 1..(i - 1) : str[j] # sep
         IN  <<SubSeq(str, 1, k - 1)>> \o split(SubSeq(str, k + 1, Len(str)), sep)

\* req.headers.authorization?.split("Bearer ")[1]; <<>> is undefined or ""
BearerToken(authorization) ==
    IF authorization = <<>> THEN <<>>
    ELSE LET parts == split(authorization, Bearer)
         IN  IF Len(parts) >= 2 THEN parts[2] ELSE <<>>

\* admin.auth().verifyIdToken(token): the decoded identity, or "" when it throws
verifyIdToken(token) == IF token = <<"good">> THEN "a@x.com" ELSE ""

\* -------------------------------------------------------------- documents
\* a create that keeps only the fields it knows
PropertyDocWithoutImage(b) ==
    [id |-> b.id, property_name |-> b.property_name,
     property_image |-> Undefined, posted_by |-> b.posted_by]

\* POST /properties stores the body as it is
PropertyDoc(b) ==
    [id |-> b.id, property_name |-> b.property_name,
     property_image |-> b.property_image, posted_by |-> b.posted_by]

\* reviewData of POST /properties/:id/reviews
ReviewDoc(id, b) ==
    [id |-> NoId, property_id |-> id, rating |-> b.rating,
     review_text |-> b.review_text, reviewer_email |-> b.reviewer_email,
     reviewer_name |-> b.reviewer_name, created_at |-> Now, updated_at |-> Undefined]

\* POST /testimonials stores the body as it is
TestimonialDoc(b) ==
    [id |-> b.id, email |-> b.email, message |-> b.message, updated_at |-> b.updated_at]

\* prop._id.toString()
IdToString(id) == IF id.t = "oid" THEN toString(id.v) ELSE id.v

\* { ...rating, property_name: property?.property_name || "Unknown Property",
\*              property_image: property?.property_image || "" }
\* where found is the set holding the property looked up, or empty
Enrich(rating, found) ==
    LET property == CHOOSE p \in found : TRUE
    IN  [id |-> rating.id, property_id |-> rating.property_id,
         rating |-> rating.rating, review_text |-> rating.review_text,
         reviewer_email |-> rating.reviewer_email,
         reviewer_name |-> rating.reviewer_name,
         created_at |-> rating.created_at, updated_at |-> rating.updated_at,
         property_name |->
             OrElse(IF found = {} THEN Undefined ELSE property.property_name,
                    "Unknown Property"),
         property_image |->
             OrElse(IF found = {} THEN Undefined ELSE property.property_image, "")]

\* ----------------------------------------------------------------- handlers
\* Each route handler from its first line to its first await.
\* GET /properties/:id
GetPropertyEnter(r) ==
    IF ~isValid(r.id) THEN Json(r, 400, "Invalid property ID")
    ELSE Await([r EXCEPT !.oid = ObjectId(r.id)], "findOne")

\* PUT /properties/:id
PutPropertyEnter(r) ==
    IF ~isValid(r.id) THEN Json(r, 400, "Invalid property ID")
    ELSE Await([r EXCEPT !.body.id = NoId, !.oid = ObjectId(r.id)], "updateOne")

\* DELETE /properties/:id
DeletePropertyEnter(r) ==
    IF ~isValid(r.id) THEN Json(r, 400, "Invalid property ID")
    ELSE Await([r EXCEPT !.oid = ObjectId(r.id)], "deleteOne")

\* PUT /reviews/:id
PutReviewEnter(r) ==
    IF ~isValid(r.id) THEN Json(r, 400, "Invalid review ID")
    ELSE Await([r EXCEPT !.oid = ObjectId(r.id)], "updateOne")

\* DELETE /reviews/:id without its format check, as the testimonial routes are
DeleteReviewEnterUnchecked(r) ==
    IF ~isValid(r.id) THEN Json(r, 500, "Failed to delete review")
    ELSE Await([r EXCEPT !.oid = ObjectId(r.id)], "deleteOne")

\* DELETE /reviews/:id
DeleteReviewEnter(r) ==
    IF ~isValid(r.id) THEN Json(r, 400, "Invalid review ID")
    ELSE Await([r EXCEPT !.oid = ObjectId(r.id)], "deleteOne")

\* PUT /testimonials/:id: no format check, new ObjectId(id) throws into the
\* handler's catch
PutTestimonialEnter(r) ==
    IF ~isValid(r.id) THEN Json([r EXCEPT !.body.id = NoId], 500, "BSONError")
    ELSE Await([r EXCEPT !.body.id = NoId, !.oid = ObjectId(r.id)], "updateOne")

\* DELETE /testimonials/:id: no format check either
DeleteTestimonialEnter(r) ==
    IF ~isValid(r.id) THEN Json(r, 500, "BSONError")
    ELSE Await([r EXCEPT !.oid = ObjectId(r.id)], "deleteOne")

\* next(): the router calls the route's handler
Enter(r) ==
    CASE r.route = "GET /properties/:id" -> GetPropertyEnter(r)
      [] r.route = "PUT /properties/:id" -> PutPropertyEnter(r)
      [] r.route = "DELETE /properties/:id" -> DeletePropertyEnter(r)
      [] r.route = "PUT /reviews/:id" -> PutReviewEnter(r)
      [] r.route = "DELETE /reviews/:id" -> DeleteReviewEnter(r)
      [] r.route = "PUT /testimonials/:id" -> PutTestimonialEnter(r)
      [] r.route = "DELETE /testimonials/:id" -> DeleteTestimonialEnter(r)
      [] r.route = "POST /properties" -> Await(r, "insertOne")
      [] r.route \in {"POST /properties/:id/reviews", "POST /testimonials",
                      "GET /testimonials/user/:email"} -> Await(r, "findOne")
      [] OTHER -> Await(r, "find")

\* verifyToken without the return in front of its 401
verifyTokenFallsThrough(r) ==
    LET token == BearerToken(r.authorization)
    IN  IF token = <<>> THEN Enter(r)
        ELSE Await([r EXCEPT !.token = token], "verifyIdToken")

\* verifyToken up to its await
verifyToken(r) ==
    LET token == BearerToken(r.authorization)
    IN  IF token = <<>> THEN Json(r, 401, "No token provided")
        ELSE Await([r EXCEPT !.token = token], "verifyIdToken")

InFlight(t) == req[t].pc # "idle"
At(s, route, op) == req[s].route = route /\ req[s].pc = op

\* a request whose insert will draw a generated identifier
Generates(r) ==
    \/ r.route \in {"POST /properties/:id/reviews", "POST /testimonials"}
    \/ r.route = "POST /properties" /\ r.body.id = NoId

\* A request from R with an Authorization header from A arrives on the lowest
\* free slot
Arrive(s, R, A) ==
    /\ ~InFlight(s)
    /\ \A t \in Slots : t < s => InFlight(t)
    /\ \E line \in R, a \in A :
          /\ Generates(line) =>
                nextId + Cardinality({t \in Slots : InFlight(t) /\ Generates(req[t])}) <= MaxIds
          /\ req' = [req EXCEPT ![s] = Await([line EXCEPT !.authorization = a], "received")]
    /\ UNCHANGED <<propertiesCollection, reviewsCollection, testimonialsCollection, nextId>>

\* The router dispatches the request to the guard of a protected route, or
\* straight to the handler of an unguarded one
Dispatch(s) ==
    /\ req[s].pc = "received"
    /\ req' = [req EXCEPT ![s] =
                  IF req[s].route \in Protected THEN verifyToken(req[s])
                  ELSE Enter(req[s])]
    /\ UNCHANGED <<propertiesCollection, reviewsCollection, testimonialsCollection, nextId>>

\* The response has been written: the slot is free again
Close(s) ==
    /\ req[s].pc = "responded"
    /\ req' = [req EXCEPT ![s] = NoReq]
    /\ UNCHANGED <<propertiesCollection, reviewsCollection, testimonialsCollection, nextId>>

\* verifyToken after its await: 401, or the identity is attached and next() runs
\* the handler
VerifyIdToken(s) ==
    /\ req[s].pc = "verifyIdToken"
    /\ LET decodedToken == verifyIdToken(req[s].token)
       IN  req' = [req EXCEPT ![s] =
                      IF decodedToken = "" THEN Json(req[s], 401, "Invalid token")
                      ELSE Enter([req[s] EXCEPT !.user = decodedToken, !.token = <<>>])]
    /\ UNCHANGED <<propertiesCollection, reviewsCollection, testimonialsCollection, nextId>>

\* ---------------------------------------------------------- property routes
\* GET /properties/:id after findOne
GetProperty(s) ==
    /\ At(s, "GET /properties/:id", "findOne")
    /\ LET result == findOne(propertiesCollection, Oid(req[s].oid))
       IN  req' = [req EXCEPT ![s] =
                      IF result = {} THEN Json(req[s], 404, "Property not found")
                      ELSE Respond(req[s], 200, "", NoId, result)]
    /\ UNCHANGED <<propertiesCollection, reviewsCollection, testimonialsCollection, nextId>>

\* GET /my-properties/:email after find
MyProperties(s) ==
    /\ At(s, "GET /my-properties/:email", "find")
    /\ req' = [req EXCEPT ![s] =
                  Respond(req[s], 200, "", NoId,
                          {p \in propertiesCollection : p.posted_by.email = req[s].email})]
    /\ UNCHANGED <<propertiesCollection, reviewsCollection, testimonialsCollection, nextId>>

\* POST /properties after insertOne
PostProperty(s) ==
    /\ At(s, "POST /properties", "insertOne")
    /\ LET result == insertOne(propertiesCollection, PropertyDoc(req[s].body))
       IN  /\ propertiesCollection' = result.docs
           /\ nextId' = nextId + result.generated
           /\ req' = [req EXCEPT ![s] =
                         IF result.error
                         THEN Json(req[s], 500, "Failed to create property")
                         ELSE Respond(req[s], 201, "Property created successfully",
                                      result.insertedId, {})]
    /\ UNCHANGED <<reviewsCollection, testimonialsCollection>>

\* PUT /properties/:id after updateOne
PutProperty(s) ==
    /\ At(s, "PUT /properties/:id", "updateOne")
    /\ LET result == updateOne(propertiesCollection, Oid(req[s].oid), req[s].body)
       IN  /\ propertiesCollection' = result.docs
           /\ req' = [req EXCEPT ![s] =
                         IF result.matchedCount = 0
                         THEN Json(req[s], 404, "Property not found")
                         ELSE Json(req[s], 200, "Property updated successfully")]
    /\ UNCHANGED <<reviewsCollection, testimonialsCollection, nextId>>

\* DELETE /properties/:id after deleteOne
DeleteProperty(s) ==
    /\ At(s, "DELETE /properties/:id", "deleteOne")
    /\ LET result == deleteOne(propertiesCollection, Oid(req[s].oid))
       IN  /\ propertiesCollection' = result.docs
           /\ req' = [req EXCEPT ![s] =
                         IF result.deletedCount = 0
                         THEN Json(req[s], 404, "Property not found")
                         ELSE Json(req[s], 200, "Property deleted successfully")]
    /\ UNCHANGED <<reviewsCollection, testimonialsCollection, nextId>>

\* ------------------------------------------------------------ review routes
\* GET /my-property-ratings/:email after the find of the user's properties
MyPropertyRatingsProperties(s) ==
    /\ At(s, "GET /my-property-ratings/:email", "find")
    /\ LET userProperties ==
               {p \in propertiesCollection : p.posted_by.email = req[s].email}
       IN  req' = [req EXCEPT ![s] =
                      IF userProperties = {} THEN Respond(req[s], 200, "", NoId, {})
                      ELSE Await([req[s] EXCEPT !.userProperties = userProperties],
                                 "find reviews")]
    /\ UNCHANGED <<propertiesCollection, reviewsCollection, testimonialsCollection, nextId>>

\* GET /my-property-ratings/:email after the find of their reviews
MyPropertyRatingsReviews(s) ==
    /\ At(s, "GET /my-property-ratings/:email", "find reviews")
    /\ LET userProperties == req[s].userProperties
           propertyIds == {IdToString(prop.id) : prop \in userProperties}
           ratings == {rating \in reviewsCollection : rating.property_id \in propertyIds}
           ratingsWithPropertyDetails ==
               {Enrich(rating, {prop \in userProperties :
                                   IdToString(prop.id) = rating.property_id}) :
                   rating \in ratings}
       IN  req' = [req EXCEPT ![s] =
                      Respond(req[s], 200, "", NoId, ratingsWithPropertyDetails)]
    /\ UNCHANGED <<propertiesCollection, reviewsCollection, testimonialsCollection, nextId>>

\* GET /my-ratings/:email after the find of the user's reviews: every callback
\* of ratings.map builds its ObjectId, and one that throws rejects Promise.all
MyRatingsReviews(s) ==
    /\ At(s, "GET /my-ratings/:email", "find")
    /\ LET ratings == {rating \in reviewsCollection : rating.reviewer_email = req[s].email}
       IN  req' = [req EXCEPT ![s] =
                      IF \E rating \in ratings : ~isValid(rating.property_id)
                      THEN Json(req[s], 500, "Failed to fetch ratings")
                      ELSE IF ratings = {} THEN Respond(req[s], 200, "", NoId, {})
                      ELSE Await([req[s] EXCEPT !.ratings = ratings], "findOne")]
    /\ UNCHANGED <<propertiesCollection, reviewsCollection, testimonialsCollection, nextId>>

\* GET /my-ratings/:email after one of the property lookups; the last one to
\* return resolves Promise.all
MyRatingsProperty(s) ==
    /\ At(s, "GET /my-ratings/:email", "findOne")
    /\ \E rating \in req[s].ratings :
          LET property == findOne(propertiesCollection, Oid(ObjectId(rating.property_id)))
              out == req[s].out \cup {Enrich(rating, property)}
              left == req[s].ratings \ {rating}
          IN  req' = [req EXCEPT ![s] =
                         IF left = {} THEN Respond(req[s], 200, "", NoId, out)
                         ELSE [req[s] EXCEPT !.ratings = left, !.out = out]]
    /\ UNCHANGED <<propertiesCollection, reviewsCollection, testimonialsCollection, nextId>>

\* the existence check with a wrong field name in its filter
existingReviewWrongField(id, reviewer_email) ==
    {rv \in reviewsCollection : rv.property_id = id /\ rv.reviewer_name = reviewer_email}

\* the reviews findOne({property_id, reviewer_email}) matches
existingReview(id, reviewer_email) ==
    {rv \in reviewsCollection : rv.property_id = id /\ rv.reviewer_email = reviewer_email}

\* a handler that ignores the result of its existence check
PostReviewCheckIgnored(s) ==
    /\ At(s, "POST /properties/:id/reviews", "findOne")
    /\ req' = [req EXCEPT ![s] = Await(req[s], "insertOne")]
    /\ UNCHANGED <<propertiesCollection, reviewsCollection, testimonialsCollection, nextId>>

\* POST /properties/:id/reviews after the existence check
PostReviewCheck(s) ==
    /\ At(s, "POST /properties/:id/reviews", "findOne")
    /\ req' = [req EXCEPT ![s] =
                  IF existingReview(req[s].id, req[s].body.reviewer_email) # {}
                  THEN Json(req[s], 400, "You have already reviewed this property")
                  ELSE Await(req[s], "insertOne")]
    /\ UNCHANGED <<propertiesCollection, reviewsCollection, testimonialsCollection, nextId>>

\* POST /properties/:id/reviews after insertOne
PostReviewInsert(s) ==
    /\ At(s, "POST /properties/:id/reviews", "insertOne")
    /\ LET result == insertOne(reviewsCollection, ReviewDoc(req[s].id, req[s].body))
       IN  /\ reviewsCollection' = result.docs
           /\ nextId' = nextId + result.generated
           /\ req' = [req EXCEPT ![s] =
                         IF result.error THEN Json(req[s], 500, "Failed to add review")
                         ELSE Respond(req[s], 201, "Review added successfully",
                                      result.insertedId, {})]
    /\ UNCHANGED <<propertiesCollection, testimonialsCollection>>

\* PUT /reviews/:id after updateOne
PutReview(s) ==
    /\ At(s, "PUT /reviews/:id", "updateOne")
    /\ LET result == updateOne(reviewsCollection, Oid(req[s].oid),
                               [EmptyBody EXCEPT !.rating = req[s].body.rating,
                                                 !.review_text = req[s].body.review_text,
                                                 !.updated_at = Now])
       IN  /\ reviewsCollection' = result.docs
           /\ req' = [req EXCEPT ![s] =
                         IF result.matchedCount = 0
                         THEN Json(req[s], 404, "Review not found")
                         ELSE Json(req[s], 200, "Review updated successfully")]
    /\ UNCHANGED <<propertiesCollection, testimonialsCollection, nextId>>

\* DELETE /reviews/:id after deleteOne
DeleteReview(s) ==
    /\ At(s, "DELETE /reviews/:id", "deleteOne")
    /\ LET result == deleteOne(reviewsCollection, Oid(req[s].oid))
       IN  /\ reviewsCollection' = result.docs
           /\ req' = [req EXCEPT ![s] =
                         IF result.deletedCount = 0
                         THEN Json(req[s], 404, "Review not found")
                         ELSE Json(req[s], 200, "Review deleted successfully")]
    /\ UNCHANGED <<propertiesCollection, testimonialsCollection, nextId>>

\* ------------------------------------------------------- testimonial routes
\* GET /testimonials/user/:email after findOne
TestimonialByUser(s) ==
    /\ At(s, "GET /testimonials/user/:email", "findOne")
    /\ LET matching == {t \in testimonialsCollection : t.email = req[s].email}
       IN  IF matching = {}
           THEN req' = [req EXCEPT ![s] = Json(req[s], 404, "No testimonial found")]
           ELSE \E testimonial \in matching :
                   req' = [req EXCEPT ![s] = Respond(req[s], 200, "", NoId, {testimonial})]
    /\ UNCHANGED <<propertiesCollection, reviewsCollection, testimonialsCollection, nextId>>

\* POST /testimonials after the existence check
PostTestimonialCheck(s) ==
    /\ At(s, "POST /testimonials", "findOne")
    /\ LET existingTestimonial ==
               {t \in testimonialsCollection : t.email = req[s].body.email}
       IN  req' = [req EXCEPT ![s] =
                      IF existingTestimonial # {}
                      THEN Json(req[s], 400, "You have already submitted a testimonial")
                      ELSE Await(req[s], "insertOne")]
    /\ UNCHANGED <<propertiesCollection, reviewsCollection, testimonialsCollection, nextId>>

\* POST /testimonials after insertOne
PostTestimonialInsert(s) ==
    /\ At(s, "POST /testimonials", "insertOne")
    /\ LET result == insertOne(testimonialsCollection, TestimonialDoc(req[s].body))
       IN  /\ testimonialsCollection' = result.docs
           /\ nextId' = nextId + result.generated
           /\ req' = [req EXCEPT ![s] =
                         IF result.error THEN Json(req[s], 500, "E11000")
                         ELSE Respond(req[s], 201, "Testimonial submitted successfully",
                                      result.insertedId, {})]
    /\ UNCHANGED <<propertiesCollection, reviewsCollection>>

\* PUT /testimonials/:id after updateOne
PutTestimonial(s) ==
    /\ At(s, "PUT /testimonials/:id", "updateOne")
    /\ LET result == updateOne(testimonialsCollection, Oid(req[s].oid),
                               [req[s].body EXCEPT !.updated_at = Now])
       IN  /\ testimonialsCollection' = result.docs
           /\ req' = [req EXCEPT ![s] =
                         IF result.matchedCount = 0
                         THEN Json(req[s], 404, "Testimonial not found")
                         ELSE Json(req[s], 200, "Testimonial updated successfully")]
    /\ UNCHANGED <<propertiesCollection, reviewsCollection, nextId>>

\* DELETE /testimonials/:id after deleteOne
DeleteTestimonial(s) ==
    /\ At(s, "DELETE /testimonials/:id", "deleteOne")
    /\ LET result == deleteOne(testimonialsCollection, Oid(req[s].oid))
       IN  /\ testimonialsCollection' = result.docs
           /\ req' = [req EXCEPT ![s] =
                         IF result.deletedCount = 0
                         THEN Json(req[s], 404, "Testimonial not found")
                         ELSE Json(req[s], 200, "Testimonial deleted successfully")]
    /\ UNCHANGED <<propertiesCollection, reviewsCollection, nextId>>

\* --------------------------------------------------------- specifications
Step(s) ==
    \/ Dispatch(s) \/ VerifyIdToken(s) \/ Close(s)
    \/ GetProperty(s) \/ MyProperties(s) \/ PostProperty(s)
    \/ PutProperty(s) \/ DeleteProperty(s)
    \/ MyPropertyRatingsProperties(s) \/ MyPropertyRatingsReviews(s)
    \/ MyRatingsReviews(s) \/ MyRatingsProperty(s)
    \/ PostReviewCheck(s) \/ PostReviewInsert(s) \/ PutReview(s) \/ DeleteReview(s)
    \/ TestimonialByUser(s) \/ PostTestimonialCheck(s) \/ PostTestimonialInsert(s)
    \/ PutTestimonial(s) \/ DeleteTestimonial(s)

\* Requests handled concurrently, by one client
ConcurrentRequests == Requests({"a@x.com"}, {toString(createPk(1)), MalformedId})
ConcurrentAuthorizations == {<<>>, <<Bearer, "good">>}
Next == \E s \in Slots : Arrive(s, ConcurrentRequests, ConcurrentAuthorizations) \/ Step(s)
Spec == Init /\ [][Next]_vars

\* Requests handled one at a time, by any client
SerialRequests == Requests(Emails, IdStrings)
NextSerial ==
    \E s \in Slots :
        \/ (\A t \in Slots : ~InFlight(t)) /\ Arrive(s, SerialRequests, Authorizations)
        \/ Step(s)
SpecSerial == Init /\ [][NextSerial]_vars

\* ------------------------------------------------------------------ claims
\* What the properties below say about a request, stated without the model's own
\* operators for the format check and the guard.
HexChars == {"0","1","2","3","4","5","6","7","8","9",
             "a","b","c","d","e","f","A","B","C","D","E","F"}
WellFormed(id) == Len(id) = 24 /\ \A i \in 1..Len(id) : id[i] \in HexChars
HasBearerToken(r) == Len(r.authorization) >= 2 /\ r.authorization[1] = "Bearer "
Authenticated(r) == r.authorization = <<"Bearer ", "good">>
GuardedRoutes ==
    {"GET /my-properties/:email", "POST /properties", "PUT /properties/:id",
     "DELETE /properties/:id", "GET /my-property-ratings/:email",
     "GET /my-ratings/:email", "POST /properties/:id/reviews", "PUT /reviews/:id",
     "DELETE /reviews/:id", "GET /testimonials/user/:email", "POST /testimonials",
     "PUT /testimonials/:id", "DELETE /testimonials/:id"}
PastGuard(r) == r.route \in GuardedRoutes => Authenticated(r)
Responded(s) == req[s].pc = "responded"
Takes(s) == req[s].pc \notin {"idle", "responded"} /\ req'[s] # req[s]
StoreUnchanged ==
    /\ propertiesCollection' = propertiesCollection
    /\ reviewsCollection' = reviewsCollection
    /\ testimonialsCollection' = testimonialsCollection
Alone(s) == \A t \in Slots \ {s} : req[t].pc = "idle"
ReviewsFor(id, reviewer_email) ==
    {rv \in reviewsCollection :
        rv.property_id = id /\ rv.reviewer_email = reviewer_email}

\* C1 as claimed: in every reachable state, concurrent POSTs included, the
\* reviews collection holds at most one review per (property_id, reviewer_email).
C1_OneReviewPerPair ==
    \A r1, r2 \in reviewsCollection :
        (r1.property_id = r2.property_id /\ r1.reviewer_email = r2.reviewer_email)
            => r1 = r2

\* C1 as amended: a POST handler goes on to its insert only when its existence
\* check finds no review of the pair, and the only step that gives a pair its
\* second review is the insert of a handler whose check ran before another
\* handler stored the pair (two POSTs of one pair that overlap).
C1_DuplicateOnlyByOverlap ==
    [][/\ \A s \in Slots :
             (/\ req[s].route = "POST /properties/:id/reviews"
              /\ req[s].pc = "findOne" /\ req'[s].pc = "insertOne")
             => ReviewsFor(req[s].id, req[s].body.reviewer_email) = {}
       /\ (C1_OneReviewPerPair /\ ~C1_OneReviewPerPair')
             => \E s \in Slots :
                   /\ req[s].route = "POST /properties/:id/reviews"
                   /\ req[s].pc = "insertOne" /\ Takes(s)
                   /\ ReviewsFor(req[s].id, req[s].body.reviewer_email) # {}]_vars

C1_Witness ==
    /\ \E s, t \in Slots :
          /\ s # t /\ Responded(s) /\ Responded(t)
          /\ req[s].route = "POST /properties/:id/reviews" /\ req[t].route = req[s].route
          /\ req[s].res.status = 201 /\ req[t].res.status = 201
          /\ req[s].id = req[t].id
          /\ req[s].body.reviewer_email = req[t].body.reviewer_email
    /\ ~C1_OneReviewPerPair

\* C2: in every reachable state, after any sequence of POST, PUT and DELETE
\* /testimonials requests, the testimonials collection holds at most one
\* testimonial per email.
C2_OneTestimonialPerEmail ==
    \A t1, t2 \in testimonialsCollection : t1.email = t2.email => t1 = t2

\* C3: while a review for (P, R) is stored and no other request is in flight,
\* every step of an authenticated POST /properties/P/reviews with reviewer_email
\* R, up to and including its existence check, leaves the reviews collection
\* unchanged, never goes on to the insert, and responds 400 when it responds.
C3_DuplicateReviewRejected ==
    [][\A s \in Slots :
          (/\ req[s].route = "POST /properties/:id/reviews"
           /\ req[s].pc \in {"received", "verifyIdToken", "findOne"}
           /\ Authenticated(req[s])
           /\ Takes(s)
           /\ Alone(s)
           /\ ReviewsFor(req[s].id, req[s].body.reviewer_email) # {})
          => /\ reviewsCollection' = reviewsCollection
             /\ req'[s].pc \in {"verifyIdToken", "findOne", "responded"}
             /\ req'[s].pc = "responded" => req'[s].res.status = 400]_vars

C3_Witness ==
    \E s \in Slots :
        /\ Responded(s) /\ Alone(s)
        /\ req[s].route = "POST /properties/:id/reviews"
        /\ req[s].res.status = 400
        /\ Cardinality(ReviewsFor(req[s].id, req[s].body.reviewer_email)) = 1

\* C4: on GET, PUT and DELETE /properties/:id and PUT and DELETE /reviews/:id, a
\* request with a malformed :id never awaits a store operation and no step of it
\* changes the store; past the guard it is answered 400 (401 at the guard).
C4Routes == {"GET /properties/:id", "PUT /properties/:id", "DELETE /properties/:id",
             "PUT /reviews/:id", "DELETE /reviews/:id"}
C4_MalformedIdRejected ==
    [][\A s \in Slots :
          (req[s].route \in C4Routes /\ ~WellFormed(req[s].id) /\ Takes(s))
          => /\ StoreUnchanged
             /\ req'[s].pc \in {"verifyIdToken", "responded"}
             /\ req'[s].pc = "responded" =>
                   req'[s].res.status = IF PastGuard(req[s]) THEN 400 ELSE 401]_vars

C4_Witness ==
    \E s \in Slots :
        /\ Responded(s)
        /\ req[s].route = "DELETE /reviews/:id"
        /\ ~WellFormed(req[s].id)
        /\ Authenticated(req[s])
        /\ req[s].res.status = 400
        /\ reviewsCollection # {}

\* C5: every handler with a by-identifier lookup checks the format first, the
\* testimonial routes included: no request with a malformed :id ends in 500.
C5Routes == C4Routes \cup {"PUT /testimonials/:id", "DELETE /testimonials/:id"}
C5_FormatCheckedEverywhere ==
    \A s \in Slots :
        (Responded(s) /\ req[s].route \in C5Routes /\ ~WellFormed(req[s].id))
            => req[s].res.status # 500

\* C6: on each delete route, the deleteOne step answers 200 exactly when the
\* document is stored and 404 otherwise, and removes it; an identifier once
\* removed never returns to its collection; so of the DELETEs of one identifier
\* whose responses are there, at most one is a 200.
DeleteRoutes == {"DELETE /properties/:id", "DELETE /reviews/:id", "DELETE /testimonials/:id"}
Target(route) ==
    CASE route \in {"GET /properties/:id", "PUT /properties/:id", "DELETE /properties/:id"}
            -> propertiesCollection
      [] route \in {"PUT /reviews/:id", "DELETE /reviews/:id"} -> reviewsCollection
      [] OTHER -> testimonialsCollection
Ids(coll) == {d.id : d \in coll}
Generated == {[t |-> "oid", v |-> createPk(n)] : n \in 1..(nextId - 1)}
C6_DeleteOnce ==
    [][/\ \A s \in Slots :
             (req[s].route \in DeleteRoutes /\ req[s].pc = "deleteOne" /\ Takes(s))
             => LET X == [t |-> "oid", v |-> req[s].oid]
                IN  /\ req'[s].pc = "responded"
                    /\ req'[s].res.status = IF X \in Ids(Target(req[s].route)) THEN 200 ELSE 404
                    /\ X \notin Ids(Target(req[s].route))'
       /\ \A X \in Generated :
             /\ X \notin Ids(propertiesCollection) => X \notin Ids(propertiesCollection')
             /\ X \notin Ids(reviewsCollection) => X \notin Ids(reviewsCollection')
             /\ X \notin Ids(testimonialsCollection) => X \notin Ids(testimonialsCollection')
       /\ \A s, t \in Slots :
             (/\ s # t /\ req'[s].pc = "responded" /\ req'[t].pc = "responded"
              /\ req'[s].route \in DeleteRoutes /\ req'[t].route = req'[s].route
              /\ WellFormed(req'[s].id) /\ WellFormed(req'[t].id)
              /\ ObjectId(req'[s].id) = ObjectId(req'[t].id)
              /\ req'[s].res.status = 200)
             => req'[t].res.status \in {404, 401}]_vars

C6_Witness ==
    \E s, t \in Slots :
        /\ s # t /\ Responded(s) /\ Responded(t)
        /\ req[s].route \in DeleteRoutes /\ req[t].route = req[s].route
        /\ req[s].id = req[t].id
        /\ req[s].res.status = 200
        /\ req[t].res.status = 404

\* C7: on every protected route the handler runs only for a request whose token
\* the verifier accepted, with the identity attached; without a bearer token the
\* answer is 401 "No token provided", with a token the verifier rejects it is
\* 401 "Invalid token"; no step of such a request changes the store, and every
\* change of the store is a step of a request that passed the guard.
C7_AuthGate ==
    [][/\ \A s \in Slots :
             req'[s].route \in GuardedRoutes =>
                /\ req'[s].pc \notin {"idle", "received", "verifyIdToken", "responded"}
                      => Authenticated(req'[s]) /\ req'[s].user # ""
                /\ (req'[s].pc = "responded" /\ ~HasBearerToken(req'[s]))
                      => /\ req'[s].res.status = 401
                         /\ req'[s].res.message = "No token provided"
                /\ (req'[s].pc = "responded" /\ HasBearerToken(req'[s])
                                             /\ ~Authenticated(req'[s]))
                      => /\ req'[s].res.status = 401
                         /\ req'[s].res.message = "Invalid token"
                /\ (req'[s].pc = "responded" /\ Authenticated(req'[s]))
                      => req'[s].res.status # 401 /\ req'[s].user # ""
                /\ (Takes(s) /\ ~Authenticated(req[s])) => StoreUnchanged
       /\ ~StoreUnchanged =>
             \E s \in Slots : Takes(s) /\ Authenticated(req[s]) /\ req[s].user # ""]_vars

C7_Witness ==
    \E s \in Slots :
        /\ Responded(s)
        /\ req[s].route = "DELETE /properties/:id"
        /\ req[s].authorization = <<"Bearer ", "bad">>
        /\ req[s].res.status = 401 /\ req[s].res.message = "Invalid token"
        /\ \E d \in propertiesCollection : IdToString(d.id) = req[s].id

\* C8: an authenticated GET /my-property-ratings/:email or GET /my-ratings/:email
\* is answered 200, and each review in the answer carries the property_name and
\* property_image of the property its property_id names, or "Unknown Property"
\* and "" when its property_id, whatever string it is, names no property.
Names(property_id, p) ==
    /\ WellFormed(property_id)
    /\ p.id = [t |-> "oid", v |-> ObjectId(property_id)]
C8_Enrichment ==
    \A s \in Slots :
        (/\ Responded(s) /\ Alone(s) /\ Authenticated(req[s])
         /\ req[s].route \in {"GET /my-property-ratings/:email", "GET /my-ratings/:email"})
        => /\ req[s].res.status = 200
           /\ \A e \in req[s].res.body :
                 /\ \A p \in propertiesCollection :
                       IdToString(p.id) = e.property_id
                          => /\ e.property_name = p.property_name
                             /\ e.property_image = p.property_image
                 /\ (\A p \in propertiesCollection : ~Names(e.property_id, p))
                       => /\ e.property_name = "Unknown Property"
                          /\ e.property_image = ""

\* C9: POST /properties answers 201 with a fresh store-generated insertedId and
\* stores the submitted fields under it; a stored property stays as it is except
\* by a PUT or DELETE of its identifier; GET /properties/{id} of a stored
\* property answers 200 with the stored document.
PostStoresPayload(s) ==
    LET new == [t |-> "oid", v |-> createPk(nextId)]
        b == req[s].body
    IN  /\ new \notin Ids(propertiesCollection)
        /\ req'[s].res.status = 201
        /\ req'[s].res.insertedId = new
        /\ propertiesCollection' = propertiesCollection \cup
              {[id |-> new, property_name |-> b.property_name,
                property_image |-> b.property_image, posted_by |-> b.posted_by]}
PropertiesPersist ==
    \A d \in propertiesCollection :
        \/ d \in propertiesCollection'
        \/ \E s \in Slots :
              /\ Takes(s)
              /\ req[s].route \in {"PUT /properties/:id", "DELETE /properties/:id"}
              /\ req[s].pc \in {"updateOne", "deleteOne"}
              /\ d.id = [t |-> "oid", v |-> req[s].oid]
GetReturnsStored ==
    \A s \in Slots :
        (Takes(s) /\ req[s].route = "GET /properties/:id" /\ req'[s].pc = "responded")
        => \A d \in propertiesCollection :
              IdToString(d.id) = req[s].id
                 => req'[s].res.status = 200 /\ req'[s].res.body = {d}
PostingProperty(s) ==
    req[s].route = "POST /properties" /\ req[s].pc = "insertOne" /\ Takes(s)

\* C9 as claimed: for every property payload
C9_PostThenGet_EveryPayload ==
    [][/\ \A s \in Slots : PostingProperty(s) => PostStoresPayload(s)
       /\ PropertiesPersist
       /\ GetReturnsStored]_vars

\* C9 as amended: for every property payload that carries no _id
C9_PostThenGet ==
    [][/\ \A s \in Slots :
             (PostingProperty(s) /\ req[s].body.id.t = "none") => PostStoresPayload(s)
       /\ PropertiesPersist
       /\ GetReturnsStored]_vars

C9_Witness ==
    \E s \in Slots :
        /\ Responded(s)
        /\ req[s].route = "GET /properties/:id"
        /\ req[s].res.status = 200
        /\ \E d \in propertiesCollection :
              /\ req[s].res.body = {d}
              /\ d.id.t = "oid"
              /\ d.property_name = "Villa" /\ d.property_image = "villa.png"
              /\ d.posted_by.email = "a@x.com"

\* C10: on the seven by-identifier routes, no step of a request whose well-formed
\* :id names no document of the target collection changes any collection, PUT
\* creates nothing, and the request is answered 404 (401 at the guard).
C10_NotFound ==
    [][\A s \in Slots :
          (/\ req[s].route \in C5Routes /\ WellFormed(req[s].id) /\ Takes(s)
           /\ [t |-> "oid", v |-> ObjectId(req[s].id)] \notin Ids(Target(req[s].route)))
          => /\ StoreUnchanged
             /\ nextId' = nextId
             /\ req'[s].pc = "responded" =>
                   req'[s].res.status = IF PastGuard(req[s]) THEN 404 ELSE 401]_vars

C10_Witness ==
    \E s \in Slots :
        /\ Responded(s)
        /\ req[s].route = "PUT /testimonials/:id"
        /\ WellFormed(req[s].id) /\ Authenticated(req[s])
        /\ req[s].res.status = 404
        /\ testimonialsCollection # {}
        /\ \A d \in testimonialsCollection : d.message = "nice" /\ d.updated_at = "undefined"

====
